---- MODULE Spec2Model ----
(***************************************************************************)
(* Model of the chidiya-ud game server: the room store and round functions *)
(* of src/src/roomManager.ts and the socket handlers and timer chains of   *)
(* src/src/index.ts.  Time is the server clock in milliseconds.            *)
(***************************************************************************)
EXTENDS Integers, Sequences, FiniteSets, TLC

(* ---------------------------------------------------------------------- *)
(* Bounds of the model                                                     *)
(* ---------------------------------------------------------------------- *)
\* number of games begun in one behaviour of Spec (SpecStale allows one more)
MaxGames == 1
\* the server clock stops advancing at MaxTime
MaxTime == 6000

(* ---------------------------------------------------------------------- *)
(* Program constants                                                       *)
(* ---------------------------------------------------------------------- *)
PRESTART_MS == 1000
ROUND_MS == 4000
INTERMISSION_MS == 1000
DefaultRoundMs == 4000
DefaultIntermissionMs == 1000
MinMs == 500
MaxRoundMs == 8000
MaxIntermissionMs == 5000
FirstCode == 10000

\* socket ids of the connections
Connections == {101, 102, 103}
\* the two that sit at the game tables
Sockets == {101, 102}
\* the connection that plays alone
Solo == {101}
\* the codes generateRoomCode draws from
Codes == {FirstCode, FirstCode + 1}
\* the codes it draws from when the clients share one table
OneCode == {FirstCode}
Games == 1..(MaxGames + 1)

\* absent values of optional fields
NoId == 0
NoCode == 0
NoTs == -1
NoChoice == "none"
NoWord == "none"

Choice == {"ud", "not_ud"}

\* the prompt catalog
ITEMS ==
  { [id |-> "i1", text |-> "chidiya", flies |-> TRUE],
    [id |-> "i2", text |-> "mez", flies |-> FALSE] }

\* payloads of room:settings (a field may be absent)
SettingsPayloads ==
  { [hasRoundMs |-> TRUE, roundMs |-> 100, hasIntermissionMs |-> FALSE, intermissionMs |-> 0],
    [hasRoundMs |-> TRUE, roundMs |-> 100000, hasIntermissionMs |-> TRUE, intermissionMs |-> 100000],
    [hasRoundMs |-> FALSE, roundMs |-> 0, hasIntermissionMs |-> TRUE, intermissionMs |-> 100] }

Max(a, b) == IF a >= b THEN a ELSE b
Min(a, b) == IF a <= b THEN a ELSE b

RECURSIVE SeqToSet(_)
SeqToSet(s) == IF s = <<>> THEN {} ELSE {Head(s)} \cup SeqToSet(Tail(s))

\* s without the element x
Without(s, x) == SelectSeq(s, LAMBDA y : y # x)

(* ---------------------------------------------------------------------- *)
(* Data: Player, Round, Room                                               *)
(* ---------------------------------------------------------------------- *)
NewPlayer ==
  [ready |-> FALSE, alive |-> TRUE, respondedAt |-> NoTs, response |-> NoChoice,
   failedAtWord |-> NoWord, failedChoice |-> NoChoice]

\* a room's optional round is <<>> (absent) or <<round>>
NoRound == <<>>
HasRound(room) == room.round # <<>>
RoundOf(room) == room.round[1]

\* the ids of room.players (room.order keeps their insertion order)
PlayerIds(room) == SeqToSet(room.order)
AliveIds(room) == {p \in PlayerIds(room) : room.players[p].alive}

Correct(r) == IF r.flies THEN "ud" ELSE "not_ud"

\* r.responses[id], NoChoice when there is none
ResponseOf(r, id) == IF id \in DOMAIN r.responses THEN r.responses[id] ELSE NoChoice

(* ---------------------------------------------------------------------- *)
(* roomManager.ts: functions over the registry `rooms` (code -> Room).     *)
(* Each returns [rooms |-> the registry after the call, ret |-> result].   *)
(* ---------------------------------------------------------------------- *)
Put(rs, code, room) == [c \in DOMAIN rs \cup {code} |-> IF c = code THEN room ELSE rs[c]]
Remove(rs, code) == [c \in DOMAIN rs \ {code} |-> rs[c]]

\* a code draw that does not look at the registry
FreeCodes_Any(rs, pool) == pool

\* while (rooms.has(code)) code = generateRoomCode(): the codes the loop can end with
FreeCodes(rs, pool) == pool \ DOMAIN rs

createRoom(rs, code, hostId) ==
  LET room == [hostId |-> hostId, status |-> "lobby",
               players |-> [p \in {hostId} |-> NewPlayer], order |-> <<hostId>>,
               round |-> NoRound, winnerId |-> NoId,
               settings |-> [roundMs |-> DefaultRoundMs, intermissionMs |-> DefaultIntermissionMs]]
  IN [rooms |-> Put(rs, code, room), ret |-> code]

\* a join that does not look at the status
Joinable_Always(room) == TRUE

\* room.status !== 'lobby' -> null
Joinable(room) == room.status = "lobby"

joinRoom(rs, code, id) ==
  IF code \notin DOMAIN rs THEN [rooms |-> rs, ret |-> FALSE]
  ELSE IF ~Joinable(rs[code]) THEN [rooms |-> rs, ret |-> FALSE]
  ELSE LET room == rs[code]
           room2 == [room EXCEPT
                       !.players = [p \in DOMAIN room.players \cup {id} |->
                                      IF p = id THEN NewPlayer ELSE room.players[p]],
                       !.order = IF id \in PlayerIds(room) THEN room.order
                                 ELSE Append(room.order, id)]
       IN [rooms |-> Put(rs, code, room2), ret |-> TRUE]

\* a room that is kept when its last player has left
Emptied_Never(keys) == FALSE

\* Object.keys(room.players).length === 0
Emptied(keys) == keys = <<>>

\* a host that is never replaced
NextHost_Keeps(hostId, keys, id) == hostId

\* if (room.hostId === id) room.hostId = Object.keys(room.players)[0]
\* (the first key of an object without keys is undefined)
NextHost(hostId, keys, id) ==
  IF hostId # id THEN hostId ELSE IF keys = <<>> THEN NoId ELSE keys[1]

\* ret: TRUE when a room is returned, FALSE for null
leaveRoom(rs, code, id) ==
  IF code \notin DOMAIN rs THEN [rooms |-> rs, ret |-> FALSE]
  ELSE LET room == rs[code]
           order2 == Without(room.order, id)
           room2 == [room EXCEPT
                       !.players = [p \in DOMAIN room.players \ {id} |-> room.players[p]],
                       !.order = order2]
       IN IF Emptied(order2) THEN [rooms |-> Remove(rs, code), ret |-> FALSE]
          ELSE [rooms |-> Put(rs, code, [room2 EXCEPT !.hostId = NextHost(room.hostId, order2, id)]),
                ret |-> TRUE]

\* the room after nextRound(room, now, roundMs, _) with the drawn item
nextRound(room, item, now, roundMs) ==
  [room EXCEPT
     !.round = << [itemId |-> item.id, itemText |-> item.text, flies |-> item.flies,
                   roundStartTs |-> now, deadlineTs |-> now + roundMs,
                   responses |-> [p \in {} |-> NoChoice]] >>,
     !.players = [p \in DOMAIN room.players |->
                    [room.players[p] EXCEPT !.respondedAt = NoTs, !.response = NoChoice]]]

\* a start check that is content with one ready player
EveryReady_SomeReady(room) == \E p \in PlayerIds(room) : room.players[p].ready

\* players.every(p => p.ready)
EveryReady(room) == \A p \in PlayerIds(room) : room.players[p].ready

startGame(rs, code, item, now, roundMs) ==
  IF code \notin DOMAIN rs THEN [rooms |-> rs, ret |-> FALSE]
  ELSE LET room == rs[code]
       IN IF room.status # "lobby" THEN [rooms |-> rs, ret |-> FALSE]
          ELSE IF Len(room.order) = 0 THEN [rooms |-> rs, ret |-> FALSE]
          ELSE IF ~EveryReady(room) THEN [rooms |-> rs, ret |-> FALSE]
          ELSE [rooms |-> Put(rs, code, nextRound([room EXCEPT !.status = "playing"],
                                                  item, now, roundMs)),
                ret |-> TRUE]

\* a membership check that forgets the alive flag
UnknownOrDead_IgnoresAlive(room, playerId) == playerId \notin PlayerIds(room)

\* !p || !p.alive
UnknownOrDead(room, playerId) ==
  playerId \notin PlayerIds(room) \/ ~room.players[playerId].alive

\* a window that closes just before the deadline
OutsideWindow_ExclusiveDeadline(r, serverTs) ==
  serverTs < r.roundStartTs \/ serverTs >= r.deadlineTs

\* serverTs < roundStartTs, serverTs > deadlineTs
OutsideWindow(r, serverTs) == serverTs < r.roundStartTs \/ serverTs > r.deadlineTs

\* a submitAnswer without the duplicate check
AlreadyAnswered_Never(r, playerId) == FALSE

\* room.round.responses[playerId] is set
AlreadyAnswered(r, playerId) == ResponseOf(r, playerId) # NoChoice

\* [room |-> the room after the call, ret |-> accepted]
submitAnswer(room, playerId, choice, serverTs) ==
  IF ~HasRound(room) THEN [room |-> room, ret |-> FALSE]
  ELSE IF UnknownOrDead(room, playerId) THEN [room |-> room, ret |-> FALSE]
  ELSE IF OutsideWindow(RoundOf(room), serverTs) THEN [room |-> room, ret |-> FALSE]
  ELSE IF AlreadyAnswered(RoundOf(room), playerId) THEN [room |-> room, ret |-> FALSE]
  ELSE LET r == RoundOf(room)
           resp2 == [p \in DOMAIN r.responses \cup {playerId} |->
                       IF p = playerId THEN choice ELSE r.responses[p]]
       IN [room |-> [room EXCEPT
                       !.round = << [r EXCEPT !.responses = resp2] >>,
                       !.players[playerId].response = choice,
                       !.players[playerId].respondedAt = serverTs],
           ret |-> TRUE]

\* a settlement that spares the players who did not answer
Fails_SparesSilent(room, p) ==
  LET r == RoundOf(room)
      resp == ResponseOf(r, p)
      ok == resp = Correct(r)
      inTime == room.players[p].respondedAt # NoTs /\ room.players[p].respondedAt <= r.deadlineTs
  IN resp # NoChoice /\ (~ok \/ ~inTime)

\* does settleRound eliminate the (alive) player p of the room
Fails(room, p) ==
  LET r == RoundOf(room)
      resp == ResponseOf(r, p)
      ok == resp = Correct(r)
      inTime == room.players[p].respondedAt # NoTs /\ room.players[p].respondedAt <= r.deadlineTs
  IN resp = NoChoice \/ ~ok \/ ~inTime

\* a game that ends only when nobody is left
GameIsOver_NobodyLeft(nAlive) == nAlive < 1

\* alive.length <= 1
GameIsOver(nAlive) == nAlive <= 1

\* [room, eliminated, survivors]
settleRound(room, serverTs) ==
  IF ~HasRound(room) THEN [room |-> room, eliminated |-> <<>>, survivors |-> <<>>]
  ELSE LET r == RoundOf(room)
           wasAlive(p) == room.players[p].alive
           elim(p) == wasAlive(p) /\ Fails(room, p)
           surv(p) == wasAlive(p) /\ ~Fails(room, p)
           settle(p) ==
             LET pl == room.players[p]
             IN IF elim(p)
                THEN [pl EXCEPT
                        !.alive = FALSE,
                        !.failedAtWord = IF pl.failedAtWord = NoWord THEN r.itemText
                                         ELSE pl.failedAtWord,
                        !.failedChoice = IF pl.failedChoice = NoChoice THEN ResponseOf(r, p)
                                         ELSE pl.failedChoice]
                ELSE pl
           players2 == [p \in DOMAIN room.players |-> settle(p)]
           alive == SelectSeq(room.order, LAMBDA p : players2[p].alive)
           room2 == [room EXCEPT !.players = players2]
           room3 == IF GameIsOver(Len(alive))
                    THEN [room2 EXCEPT !.status = "game_over",
                                       !.winnerId = IF Len(alive) = 0 THEN NoId ELSE alive[1]]
                    ELSE room2
       IN [room |-> room3,
           eliminated |-> SelectSeq(room.order, elim),
           survivors |-> SelectSeq(room.order, surv)]

setReady(rs, code, playerId, ready) ==
  IF code \notin DOMAIN rs THEN [rooms |-> rs, ret |-> FALSE]
  ELSE IF rs[code].status # "lobby" THEN [rooms |-> rs, ret |-> TRUE]
  ELSE IF playerId \in PlayerIds(rs[code])
       THEN [rooms |-> [rs EXCEPT ![code].players[playerId].ready = ready], ret |-> TRUE]
       ELSE [rooms |-> rs, ret |-> TRUE]

allReady(room) == \A p \in PlayerIds(room) : room.players[p].ready

\* a clamp that forgets the upper bound
Clamp_NoUpper(lo, hi, v) == Max(lo, v)

\* Math.max(lo, Math.min(hi, Math.floor(v))), v an integer
Clamp(lo, hi, v) == Max(lo, Min(hi, v))

\* a setSettings that does not look at the status
SettingsFrozen_Never(room) == FALSE

\* room.status !== 'lobby' -> the room as it is
SettingsFrozen(room) == room.status # "lobby"

setSettings(rs, code, updater) ==
  IF code \notin DOMAIN rs THEN [rooms |-> rs, ret |-> FALSE]
  ELSE IF SettingsFrozen(rs[code]) THEN [rooms |-> rs, ret |-> TRUE]
  ELSE LET cur == rs[code].settings
           next == [roundMs |-> IF updater.hasRoundMs
                                THEN Clamp(MinMs, MaxRoundMs, updater.roundMs)
                                ELSE cur.roundMs,
                    intermissionMs |-> IF updater.hasIntermissionMs
                                       THEN Clamp(MinMs, MaxIntermissionMs, updater.intermissionMs)
                                       ELSE cur.intermissionMs]
       IN [rooms |-> [rs EXCEPT ![code].settings = next], ret |-> TRUE]

\* a reset that leaves the eliminated players dead
ResetPlayer_StaysDead(pl) ==
  [ready |-> FALSE, alive |-> pl.alive, respondedAt |-> NoTs, response |-> NoChoice,
   failedAtWord |-> NoWord, failedChoice |-> NoChoice]

\* the forEach body of resetToLobby
ResetPlayer(pl) ==
  [ready |-> FALSE, alive |-> TRUE, respondedAt |-> NoTs, response |-> NoChoice,
   failedAtWord |-> NoWord, failedChoice |-> NoChoice]

resetToLobby(rs, code) ==
  IF code \notin DOMAIN rs THEN [rooms |-> rs, ret |-> FALSE]
  ELSE LET room == rs[code]
       IN [rooms |-> Put(rs, code,
                         [room EXCEPT
                            !.status = "lobby", !.round = NoRound, !.winnerId = NoId,
                            !.players = [p \in DOMAIN room.players |->
                                           ResetPlayer(room.players[p])]]),
           ret |-> TRUE]

(* ---------------------------------------------------------------------- *)
(* index.ts: state of the server process                                   *)
(* ---------------------------------------------------------------------- *)
VARIABLES
  rooms,      \* roomManager's registry: room code -> Room
  roomCode,   \* per connection: the closure variable roomCode (NoCode = null)
  connected,  \* per connection: not yet disconnected
  games,      \* games[g]: the connection whose game:start handler began game g
  chains,     \* g -> the pending setTimeout of game g's round cycle
  ticks,      \* the games whose tickInterval has not been cleared
  now,        \* Date.now()
  last,       \* the handler or timer callback that ran last, with its result
  out         \* the notifications it emitted, in order

vars == <<rooms, roomCode, connected, games, chains, ticks, now, last, out>>

getRoom(code) == code \in DOMAIN rooms

\* the record of a handler run: its name and whether it went through; By adds
\* the connection whose handler or timer it was and the room code it used
Ran(op, ok) ==
  [op |-> op, ok |-> ok, sock |-> NoId, code |-> NoCode, host |-> NoId, choice |-> NoChoice,
   eliminated |-> <<>>, survivors |-> <<>>, deadlineTs |-> NoTs]
By(run, s, code) == [run EXCEPT !.sock = s, !.code = code]

\* the host, before a handler ran, of the room with this code
HostOf(code) == IF getRoom(code) THEN rooms[code].hostId ELSE NoId
\* the record of a leave: who left which room, and who was its host
Left(op, ok, s, code) == [By(Ran(op, ok), s, code) EXCEPT !.host = HostOf(code)]

\* a notification, by its event name (to: the room or socket it is sent to)
Emit(ev, to) == ev

\* r.settings.intermissionMs of the room object a chain captured in runRoundCycle:
\* the live room at rCode, or the value frozen when that room was destroyed
CapturedIntermissionMs(ch) ==
  IF ch.rIm # NoTs THEN ch.rIm ELSE rooms[ch.rCode].settings.intermissionMs

\* the chains after the room with this code has been deleted from the registry
Orphan(chs, code, im) ==
  [g \in DOMAIN chs |->
     IF chs[g].rCode = code /\ chs[g].rIm = NoTs THEN [chs[g] EXCEPT !.rIm = im] ELSE chs[g]]

\* chains after leaveRoom(code, _) took the registry from rooms to rs2
AfterLeave(rs2, code) ==
  IF code \in DOMAIN rooms /\ code \notin DOMAIN rs2
  THEN Orphan(chains, code, rooms[code].settings.intermissionMs)
  ELSE chains

Drop(f, g) == [x \in DOMAIN f \ {g} |-> f[x]]
Set(f, g, v) == [x \in DOMAIN f \cup {g} |-> IF x = g THEN v ELSE f[x]]

Init ==
  /\ rooms = [c \in {} |-> 0]
  /\ roomCode = [s \in Connections |-> NoCode]
  /\ connected = [s \in Connections |-> TRUE]
  /\ games = <<>>
  /\ chains = [g \in {} |-> 0]
  /\ ticks = {}
  /\ now = 0
  /\ last = Ran("init", TRUE)
  /\ out = <<>>

(* ---------------------------------------------------------------------- *)
(* index.ts: socket handlers                                               *)
(* ---------------------------------------------------------------------- *)
\* pool: the codes generateRoomCode can return
RoomCreate(s, pool) ==
  /\ connected[s]
  /\ \E code \in FreeCodes(rooms, pool) :
       LET res == createRoom(rooms, code, s)
       IN /\ rooms' = res.rooms
          /\ roomCode' = [roomCode EXCEPT ![s] = code]
          /\ last' = By(Ran("room:create", TRUE), s, code)
          /\ out' = << Emit("room:state", s) >>
  /\ UNCHANGED <<connected, games, chains, ticks, now>>

RoomJoin(s, code) ==
  /\ connected[s]
  /\ LET res == joinRoom(rooms, code, s)
     IN IF ~res.ret
        THEN /\ out' = << Emit("room:error", s) >>
             /\ last' = By(Ran("room:join", FALSE), s, code)
             /\ UNCHANGED <<rooms, roomCode>>
        ELSE /\ rooms' = res.rooms
             /\ roomCode' = [roomCode EXCEPT ![s] = code]
             /\ last' = By(Ran("room:join", TRUE), s, code)
             /\ out' = << Emit("player:joined", code), Emit("room:state", code) >>
  /\ UNCHANGED <<connected, games, chains, ticks, now>>

RoomReady(s, ready) ==
  /\ connected[s]
  /\ IF roomCode[s] = NoCode
     THEN /\ last' = Ran("room:ready", FALSE)
          /\ out' = <<>>
          /\ UNCHANGED rooms
     ELSE LET res == setReady(rooms, roomCode[s], s, ready)
          IN /\ rooms' = res.rooms
             /\ last' = Ran("room:ready", res.ret)
             /\ out' = IF res.ret THEN << Emit("room:state", roomCode[s]) >> ELSE <<>>
  /\ UNCHANGED <<roomCode, connected, games, chains, ticks, now>>

\* both registered room:leave handlers run; the second finds roomCode = null
RoomLeave(s) ==
  /\ connected[s]
  /\ IF roomCode[s] = NoCode
     THEN /\ last' = Ran("room:leave", FALSE)
          /\ out' = <<>>
          /\ UNCHANGED <<rooms, roomCode, chains>>
     ELSE LET code == roomCode[s]
              res == leaveRoom(rooms, code, s)
          IN /\ rooms' = res.rooms
             /\ chains' = AfterLeave(res.rooms, code)
             /\ roomCode' = [roomCode EXCEPT ![s] = NoCode]
             /\ last' = Left("room:leave", res.ret, s, code)
             /\ out' = IF res.ret
                       THEN << Emit("player:left", code), Emit("room:state", code) >>
                       ELSE <<>>
  /\ UNCHANGED <<connected, games, ticks, now>>

Disconnect(s) ==
  /\ connected[s]
  /\ connected' = [connected EXCEPT ![s] = FALSE]
  /\ IF roomCode[s] = NoCode
     THEN /\ last' = Ran("disconnect", FALSE)
          /\ out' = <<>>
          /\ UNCHANGED <<rooms, chains>>
     ELSE LET code == roomCode[s]
              res == leaveRoom(rooms, code, s)
          IN /\ rooms' = res.rooms
             /\ chains' = AfterLeave(res.rooms, code)
             /\ last' = Left("disconnect", res.ret, s, code)
             /\ out' = IF res.ret
                       THEN << Emit("player:left", code), Emit("room:state", code) >>
                       ELSE <<>>
  /\ UNCHANGED <<roomCode, games, ticks, now>>

\* game:start: startGame, then setInterval(tick) and runRoundCycle, whose
\* scheduleFinish sets the start-delay timeout of the first round
\* (maxGames bounds the games begun in one behaviour)
GameStart(s, maxGames) ==
  /\ connected[s]
  /\ IF roomCode[s] = NoCode
     THEN /\ last' = By(Ran("game:start", FALSE), s, NoCode)
          /\ out' = <<>>
          /\ UNCHANGED <<rooms, games, chains, ticks>>
     ELSE \E item \in ITEMS :
          LET code == roomCode[s]
              startAt == now + PRESTART_MS
              roundMs == IF getRoom(code) THEN rooms[code].settings.roundMs ELSE ROUND_MS
              res == startGame(rooms, code, item, startAt, roundMs)
              g == Len(games) + 1
          IN IF ~res.ret
             THEN /\ last' = By(Ran("game:start", FALSE), s, code)
                  /\ out' = <<>>
                  /\ UNCHANGED <<rooms, games, chains, ticks>>
             ELSE /\ g <= maxGames
                  /\ rooms' = res.rooms
                  /\ games' = Append(games, s)
                  /\ ticks' = ticks \cup {g}
                  /\ chains' = Set(chains, g,
                                   [phase |-> "start",
                                    due |-> now + Max(0, RoundOf(res.rooms[code]).roundStartTs - now),
                                    rCode |-> code, rIm |-> NoTs])
                  /\ last' = By(Ran("game:start", TRUE), s, code)
                  /\ out' = << Emit("game:started", code), Emit("round:started", code) >>
  /\ UNCHANGED <<roomCode, connected, now>>

\* an immediate elimination that does not look at submitAnswer's result
EliminatedNow_Unchecked(okSubmit, choice, r) == choice # Correct(r)

\* if (!okSubmit) return; ... if (choice !== correctChoice)
EliminatedNow(okSubmit, choice, r) == okSubmit /\ choice # Correct(r)

\* an elimination that keeps no record of the failure
Eliminate_Unrecorded(pl, r, choice) == [pl EXCEPT !.alive = FALSE]

\* p.alive = false; p.failedAtWord = room.round.itemText; p.failedChoice = choice
Eliminate(pl, r, choice) ==
  [pl EXCEPT !.alive = FALSE, !.failedAtWord = r.itemText, !.failedChoice = choice]

\* round:answer: submitAnswer, then the immediate elimination on a wrong answer
RoundAnswer(s, choice) ==
  /\ connected[s]
  /\ IF roomCode[s] = NoCode \/ ~getRoom(roomCode[s])
     THEN /\ last' = [By(Ran("round:answer", FALSE), s, roomCode[s]) EXCEPT !.choice = choice]
          /\ out' = <<>>
          /\ UNCHANGED rooms
     ELSE LET code == roomCode[s]
              room == rooms[code]
          IN IF ~HasRound(room)
             THEN /\ last' = [By(Ran("round:answer", FALSE), s, code) EXCEPT !.choice = choice]
                  /\ out' = <<>>
                  /\ UNCHANGED rooms
             ELSE LET res == submitAnswer(room, s, choice, now)
                      r == RoundOf(res.room)
                      wrong == EliminatedNow(res.ret, choice, r)
                      room2 == IF wrong /\ s \in PlayerIds(res.room)
                               THEN [res.room EXCEPT
                                       !.players[s] = Eliminate(res.room.players[s], r, choice)]
                               ELSE res.room
                  IN /\ rooms' = [rooms EXCEPT ![code] = room2]
                     /\ last' = [By(Ran("round:answer", res.ret), s, code) EXCEPT !.choice = choice]
                     /\ out' = IF wrong
                               THEN << Emit("you:eliminated", s), Emit("room:state", code) >>
                               ELSE <<>>
  /\ UNCHANGED <<roomCode, connected, games, chains, ticks, now>>

\* a handler that lets every member through
NotHost_Anyone(room, s) == FALSE

\* if (room.hostId !== socket.id) return
NotHost(room, s) == room.hostId # s

RoomSettings(s, payload) ==
  /\ connected[s]
  /\ IF roomCode[s] = NoCode \/ ~getRoom(roomCode[s])
     THEN /\ last' = Ran("room:settings", FALSE)
          /\ out' = <<>>
          /\ UNCHANGED rooms
     ELSE LET code == roomCode[s]
          IN IF NotHost(rooms[code], s)
             THEN /\ last' = By(Ran("room:settings", FALSE), s, code)
                  /\ out' = <<>>
                  /\ UNCHANGED rooms
             ELSE LET res == setSettings(rooms, code, payload)
                  IN /\ rooms' = res.rooms
                     /\ last' = By(Ran("room:settings", TRUE), s, code)
                     /\ out' = IF res.ret THEN << Emit("room:state", code) >> ELSE <<>>
  /\ UNCHANGED <<roomCode, connected, games, chains, ticks, now>>

RoomReset(s) ==
  /\ connected[s]
  /\ IF roomCode[s] = NoCode \/ ~getRoom(roomCode[s])
     THEN /\ last' = Ran("room:reset", FALSE)
          /\ out' = <<>>
          /\ UNCHANGED rooms
     ELSE LET code == roomCode[s]
          IN IF NotHost(rooms[code], s)
             THEN /\ last' = By(Ran("room:reset", FALSE), s, code)
                  /\ out' = <<>>
                  /\ UNCHANGED rooms
             ELSE LET res == resetToLobby(rooms, code)
                  IN /\ rooms' = res.rooms
                     /\ last' = By(Ran("room:reset", TRUE), s, code)
                     /\ out' = IF res.ret THEN << Emit("room:state", code) >> ELSE <<>>
  /\ UNCHANGED <<roomCode, connected, games, chains, ticks, now>>

(* ---------------------------------------------------------------------- *)
(* index.ts: timer callbacks of game g (closures of games[g]'s handler)    *)
(* ---------------------------------------------------------------------- *)
\* a tick that does not look at the status
Ticking_AnyStatus(code) == getRoom(code) /\ HasRound(rooms[code])

\* if (!r || r.status !== 'playing' || !r.round) return
Ticking(code) ==
  /\ getRoom(code)
  /\ rooms[code].status = "playing"
  /\ HasRound(rooms[code])

\* the setInterval callback; the interval's period (200 ms) is shorter than
\* every delay of the round cycle, so a firing is possible at any instant
TickFire(g) ==
  /\ g \in ticks
  /\ LET code == roomCode[games[g]]
         emits == Ticking(code)
     IN /\ out' = IF emits
                  THEN << Emit("round:tick", code) >>
                  ELSE <<>>
        /\ last' = [By(Ran("tick", emits), games[g], code) EXCEPT
                      !.deadlineTs = IF emits THEN RoundOf(rooms[code]).deadlineTs
                                     ELSE NoTs]
  /\ UNCHANGED <<rooms, roomCode, connected, games, chains, ticks, now>>

\* the start-delay timeout of scheduleFinish
StartTimer(g) ==
  /\ g \in DOMAIN chains
  /\ chains[g].phase = "start"
  /\ chains[g].due <= now
  /\ LET code == roomCode[games[g]]
     IN IF ~getRoom(code) \/ ~HasRound(rooms[code])
        THEN /\ chains' = Drop(chains, g)
             /\ last' = By(Ran("startTimer", FALSE), games[g], code)
        ELSE /\ chains' = [chains EXCEPT
                             ![g].phase = "finish",
                             ![g].due = now + Max(0, RoundOf(rooms[code]).deadlineTs - now)]
             /\ last' = By(Ran("startTimer", TRUE), games[g], code)
  /\ out' = <<>>
  /\ UNCHANGED <<rooms, roomCode, connected, games, ticks, now>>

\* the finish timeout: settleRound, then game over or the intermission timeout
FinishTimer(g) ==
  /\ g \in DOMAIN chains
  /\ chains[g].phase = "finish"
  /\ chains[g].due <= now
  /\ LET code == roomCode[games[g]]
     IN IF ~getRoom(code)
        THEN /\ chains' = Drop(chains, g)
             /\ last' = By(Ran("finishTimer", FALSE), games[g], code)
             /\ out' = <<>>
             /\ UNCHANGED <<rooms, ticks>>
        ELSE LET res == settleRound(rooms[code], now)
                 results == Emit("round:results", code)
             IN /\ rooms' = [rooms EXCEPT ![code] = res.room]
                /\ last' = [By(Ran("finishTimer", TRUE), games[g], code) EXCEPT
                              !.eliminated = res.eliminated, !.survivors = res.survivors]
                /\ IF res.room.status = "game_over"
                   THEN /\ out' = << results, Emit("room:state", code), Emit("game:over", code) >>
                        /\ ticks' = ticks \ {g}
                        /\ chains' = Drop(chains, g)
                   ELSE /\ out' = << results, Emit("room:state", code) >>
                        /\ chains' = [chains EXCEPT
                                        ![g].phase = "inter",
                                        ![g].due = now + CapturedIntermissionMs(chains[g])]
                        /\ UNCHANGED ticks
  /\ UNCHANGED <<roomCode, connected, games, now>>

\* the intermission timeout: nextRound, then runRoundCycle
InterTimer(g) ==
  /\ g \in DOMAIN chains
  /\ chains[g].phase = "inter"
  /\ chains[g].due <= now
  /\ LET code == roomCode[games[g]]
     IN IF ~getRoom(code)
        THEN /\ chains' = Drop(chains, g)
             /\ last' = By(Ran("interTimer", FALSE), games[g], code)
             /\ out' = <<>>
             /\ UNCHANGED rooms
        ELSE \E item \in ITEMS :
             LET rr == rooms[code]
                 room2 == nextRound(rr, item, now + PRESTART_MS, rr.settings.roundMs)
             IN /\ rooms' = [rooms EXCEPT ![code] = room2]
                /\ IF room2.status # "playing"
                   THEN /\ chains' = Drop(chains, g)
                        /\ last' = By(Ran("interTimer", FALSE), games[g], code)
                        /\ out' = <<>>
                   ELSE /\ chains' = [chains EXCEPT
                                        ![g] = [phase |-> "start",
                                                due |-> now + Max(0, RoundOf(room2).roundStartTs - now),
                                                rCode |-> code, rIm |-> NoTs]]
                        /\ last' = By(Ran("interTimer", TRUE), games[g], code)
                        /\ out' = << Emit("round:started", code) >>
  /\ UNCHANGED <<roomCode, connected, games, ticks, now>>

(* ---------------------------------------------------------------------- *)
(* The server clock                                                        *)
(* ---------------------------------------------------------------------- *)
\* due times of the pending timeouts
Dues == {chains[g].due : g \in DOMAIN chains}

\* time passes up to the next due timeout, not beyond the horizon
Advance(horizon) ==
  /\ \E t \in Dues :
       /\ t > now
       /\ t <= horizon
       /\ \A d \in Dues : t <= d
       /\ now' = t
  /\ last' = Ran("advance", TRUE)
  /\ out' = <<>>
  /\ UNCHANGED <<rooms, roomCode, connected, games, chains, ticks>>

\* start and deadline of the rounds the rooms hold
RoundTimes ==
  UNION { {RoundOf(rooms[c]).roundStartTs, RoundOf(rooms[c]).deadlineTs} :
            c \in {d \in DOMAIN rooms : HasRound(rooms[d])} }

\* time passes up to the start or the deadline of a round, whether or not a
\* timeout is due then, not beyond the next due timeout or the horizon
Wait(horizon) ==
  /\ \E t \in RoundTimes :
       /\ t > now
       /\ t <= horizon
       /\ \A d \in Dues : t <= d
       /\ now' = t
  /\ last' = Ran("wait", TRUE)
  /\ out' = <<>>
  /\ UNCHANGED <<rooms, roomCode, connected, games, chains, ticks>>

(* ---------------------------------------------------------------------- *)
(* Specifications                                                          *)
(* ---------------------------------------------------------------------- *)
\* what the specifications share: the events of the connections `socks` at
\* the tables with the codes `pool`, and the timers of the games
Tables(socks, pool, maxGames) ==
  \/ \E s \in socks : RoomCreate(s, pool)
  \/ \E s \in socks, code \in pool : RoomJoin(s, code)
  \/ \E s \in socks, ready \in BOOLEAN : RoomReady(s, ready)
  \/ \E s \in socks : GameStart(s, maxGames)
  \/ \E s \in socks, choice \in Choice : RoundAnswer(s, choice)
  \/ \E g \in Games : TickFire(g)
  \/ \E g \in Games : StartTimer(g)
  \/ \E g \in Games : FinishTimer(g)
  \/ \E g \in Games : InterTimer(g)

\* the same at one table
Play(socks, maxGames) == Tables(socks, OneCode, maxGames)

\* A table whose players come and go: MaxGames games, and room:leave.
Next ==
  \/ Play(Sockets, MaxGames)
  \/ \E s \in Sockets : RoomLeave(s)
  \/ Advance(MaxTime)

Spec == Init /\ [][Next]_vars

\* A table whose only player resets it and starts again: room:reset, and one
\* more game, so that a game can begin while the timers of an earlier one are
\* pending.
NextStale ==
  \/ Play(Solo, MaxGames + 1)
  \/ \E s \in Solo : RoomReset(s)
  \/ Advance(MaxTime)

SpecStale == Init /\ [][NextStale]_vars

\* A table of two whose host edits the settings, before, during and after a
\* game.
NextSettings ==
  \/ \E s \in Sockets : RoomCreate(s, OneCode)
  \/ \E s \in Sockets, code \in OneCode : RoomJoin(s, code)
  \/ \E s \in Sockets : RoomReady(s, TRUE)
  \/ \E s \in Sockets : GameStart(s, MaxGames)
  \/ \E s \in Sockets, choice \in Choice : RoundAnswer(s, choice)
  \/ \E g \in Games : StartTimer(g)
  \/ \E g \in Games : FinishTimer(g)
  \/ \E g \in Games : InterTimer(g)
  \/ \E s \in Sockets, payload \in SettingsPayloads : RoomSettings(s, payload)
  \/ Advance(MaxTime)

SpecSettings == Init /\ [][NextSettings]_vars

\* the payload that asks for the shortest round
ShortRound == {p \in SettingsPayloads : p.hasRoundMs /\ p.roundMs < MinMs}

\* A table of two where either player, host or not, edits the settings and
\* resets the table; nobody answers, so a game ends with its first round.
NextHostOnly ==
  \/ \E s \in Sockets : RoomCreate(s, OneCode)
  \/ \E s \in Sockets, code \in OneCode : RoomJoin(s, code)
  \/ \E s \in Sockets : RoomReady(s, TRUE)
  \/ \E s \in Sockets : GameStart(s, MaxGames)
  \/ \E g \in Games : StartTimer(g)
  \/ \E g \in Games : FinishTimer(g)
  \/ \E g \in Games : InterTimer(g)
  \/ \E s \in Sockets, payload \in ShortRound : RoomSettings(s, payload)
  \/ \E s \in Sockets : RoomReset(s)
  \/ Advance(MaxTime)

SpecHost == Init /\ [][NextHostOnly]_vars

\* A table whose only player edits the settings, resets the table and starts
\* again, over two start delays more than the other tables, so that the
\* timers of an earlier game fire after a later game has ended.
NextRestart ==
  \/ \E s \in Solo : RoomCreate(s, OneCode)
  \/ \E s \in Solo : RoomReady(s, TRUE)
  \/ \E s \in Solo : GameStart(s, MaxGames + 1)
  \/ \E s \in Solo, choice \in Choice : RoundAnswer(s, choice)
  \/ \E g \in Games : StartTimer(g)
  \/ \E g \in Games : FinishTimer(g)
  \/ \E g \in Games : InterTimer(g)
  \/ \E s \in Solo, payload \in SettingsPayloads : RoomSettings(s, payload)
  \/ \E s \in Solo : RoomReset(s)
  \/ Advance(MaxTime + 2 * PRESTART_MS)
  \/ Wait(MaxTime + 2 * PRESTART_MS)

SpecRestart == Init /\ [][NextRestart]_vars

\* Two tables: a connection creates, joins and leaves rooms with either code
\* while the timers of its game are pending.
NextRooms ==
  \/ Tables(Solo, Codes, MaxGames)
  \/ \E s \in Solo : RoomLeave(s)
  \/ Advance(MaxTime)

SpecRooms == Init /\ [][NextRooms]_vars

\* The lobbies: three connections create, join and leave rooms with either
\* code, or disconnect; no game is started.
NextLobby ==
  \/ \E s \in Connections : RoomCreate(s, Codes)
  \/ \E s \in Connections, code \in Codes : RoomJoin(s, code)
  \/ \E s \in Connections : RoomLeave(s)
  \/ \E s \in Connections : Disconnect(s)

SpecLobby == Init /\ [][NextLobby]_vars

\* The timers fire when they are due and time passes: every pending timeout
\* callback of every game runs, and the clock reaches the next due time.
TimersFair ==
  /\ \A g \in Games : WF_vars(StartTimer(g))
  /\ \A g \in Games : WF_vars(FinishTimer(g))
  /\ \A g \in Games : WF_vars(InterTimer(g))
  /\ WF_vars(Advance(MaxTime))

\* A table whose players come and go, by room:leave or by disconnecting, with
\* fair timers.
NextLive ==
  \/ Play(Sockets, MaxGames)
  \/ \E s \in Sockets : RoomLeave(s)
  \/ \E s \in Sockets : Disconnect(s)
  \/ Advance(MaxTime)

SpecLive == Init /\ [][NextLive]_vars /\ TimersFair

(* ---------------------------------------------------------------------- *)
(* Properties                                                              *)
(* ---------------------------------------------------------------------- *)
\* the timestamps submitAnswer is probed with: the clock, and the edges of the window
Probes(room) ==
  {now} \cup (IF HasRound(room)
              THEN {RoundOf(room).roundStartTs - 1, RoundOf(room).roundStartTs,
                    RoundOf(room).deadlineTs, RoundOf(room).deadlineTs + 1}
              ELSE {})

Rejected(room) == [room |-> room, ret |-> FALSE]

\* the last step ran the finish timer, and settleRound found a round to settle
SettledARound ==
  /\ last'.op = "finishTimer"
  /\ last'.ok
  /\ HasRound(rooms[last'.code])

\* C1: every live room has a round if and only if its status is playing.
C1_RoundIffPlaying ==
  \A c \in DOMAIN rooms : HasRound(rooms[c]) <=> rooms[c].status = "playing"

\* C2: a settlement that eliminates players settles a round whose deadlineTs
\* the server clock has reached.
C2_SettledAtDeadline ==
  (last.op = "finishTimer" /\ last.ok /\ last.eliminated # <<>>)
    => RoundOf(rooms[last.code]).deadlineTs <= now

\* what C3 says of settleRound taking the room `pre` to `post` and returning
\* the lists eliminated and survivors
C3_Holds(pre, post, eliminated, survivors) ==
  LET r == RoundOf(pre)
      correct == IF r.flies THEN "ud" ELSE "not_ud"
      good(p) == /\ ResponseOf(r, p) = correct
                 /\ pre.players[p].respondedAt # NoTs
                 /\ pre.players[p].respondedAt <= r.deadlineTs
  IN /\ \A p \in AliveIds(pre) : post.players[p].alive <=> good(p)
     /\ SeqToSet(eliminated) \cap SeqToSet(survivors) = {}
     /\ SeqToSet(eliminated) \cup SeqToSet(survivors) = AliveIds(pre)
     /\ SeqToSet(survivors) = AliveIds(post)

\* C3: settleRound on a room with a round keeps an alive player alive exactly
\* when the player's recorded response is the correct answer given by the
\* deadline, and sets alive=false otherwise; eliminated and survivors are
\* disjoint, together the players alive before, and survivors the players
\* alive after.  Checked of settleRound on every reachable room, and of the
\* settlement each finish timer performs.
C3_SettleEliminates ==
  /\ [](\A c \in DOMAIN rooms :
          HasRound(rooms[c]) =>
            LET res == settleRound(rooms[c], now)
            IN C3_Holds(rooms[c], res.room, res.eliminated, res.survivors))
  /\ [][ SettledARound =>
           C3_Holds(rooms[last'.code], rooms'[last'.code], last'.eliminated, last'.survivors)
       ]_vars

\* a finish timer settled a round, eliminating a player and keeping another
C3_Witness ==
  /\ last.op = "finishTimer"
  /\ last.ok
  /\ last.eliminated # <<>>
  /\ last.survivors # <<>>

\* what C4 says of settleRound taking the room `pre` to `post`
C4_Holds(pre, post) ==
  LET alive == AliveIds(post)
  IN /\ Cardinality(alive) <= 1 =>
          /\ post.status = "game_over"
          /\ \/ alive = {} /\ post.winnerId = NoId
             \/ alive = {post.winnerId}
     /\ Cardinality(alive) >= 2 =>
          /\ post.status = pre.status
          /\ post.winnerId = pre.winnerId
          /\ pre.status = "playing" => post.winnerId = NoId

\* C4: after settleRound has processed a round, at most one alive player
\* means status game_over with winnerId the alive player (unset when none is
\* alive); two or more alive players mean status and winnerId are as before
\* the call, so a playing room stays playing with no winner.
C4_GameOverAndWinner ==
  /\ [](\A c \in DOMAIN rooms :
          HasRound(rooms[c]) => C4_Holds(rooms[c], settleRound(rooms[c], now).room))
  /\ [][ SettledARound => C4_Holds(rooms[last'.code], rooms'[last'.code]) ]_vars

\* a finish timer settled a round of two players and left a single winner
C4_Witness ==
  /\ last.op = "finishTimer"
  /\ last.ok
  /\ last.eliminated # <<>>
  /\ rooms[last.code].status = "game_over"
  /\ rooms[last.code].winnerId # NoId
  /\ Len(rooms[last.code].order) = 2

\* the sender of the round:answer event of this step, before it: alive, in
\* the room with a round its roomCode names
AnswerBy(s, c) ==
  /\ last'.op = "round:answer"
  /\ s = last'.sock
  /\ c = last'.code
  /\ c \in DOMAIN rooms
  /\ HasRound(rooms[c])

\* C5: for an alive player with no recorded response in the current round,
\* submitAnswer is accepted iff roundStartTs <= serverTs <= deadlineTs, and a
\* rejection changes nothing.  Checked of submitAnswer at the clock and at the
\* edges of the window, and of every round:answer event.
C5_AnswerWindow ==
  /\ [](\A c \in DOMAIN rooms, p \in Sockets, ch \in Choice : \A ts \in Probes(rooms[c]) :
          (/\ HasRound(rooms[c])
           /\ p \in AliveIds(rooms[c])
           /\ ResponseOf(RoundOf(rooms[c]), p) = NoChoice)
          => LET res == submitAnswer(rooms[c], p, ch, ts)
                 r == RoundOf(rooms[c])
             IN /\ res.ret <=> (r.roundStartTs <= ts /\ ts <= r.deadlineTs)
                /\ ~res.ret => res.room = rooms[c]
                /\ res.ret => /\ res.room.players[p].respondedAt = ts
                              /\ ResponseOf(RoundOf(res.room), p) = ch)
  /\ [][ \A s \in Sockets, c \in Codes :
           (/\ AnswerBy(s, c)
            /\ s \in AliveIds(rooms[c])
            /\ ResponseOf(RoundOf(rooms[c]), s) = NoChoice)
           => LET r == RoundOf(rooms[c])
              IN /\ last'.ok <=> (r.roundStartTs <= now /\ now <= r.deadlineTs)
                 /\ ~last'.ok => rooms' = rooms
                 /\ last'.ok => rooms'[c].players[s].respondedAt = now
       ]_vars

\* an answer sent at exactly deadlineTs was accepted
C5_Witness ==
  /\ last.op = "round:answer"
  /\ last.ok
  /\ last.code \in DOMAIN rooms
  /\ HasRound(rooms[last.code])
  /\ now = RoundOf(rooms[last.code]).deadlineTs
  /\ rooms[last.code].players[last.sock].respondedAt = now

\* C6: once a player has a recorded response in the round, every later
\* submitAnswer of that player in the round (any choice, any timestamp) is
\* rejected and leaves the room, its round and its players unchanged.
C6_FirstAnswerWins ==
  /\ [](\A c \in DOMAIN rooms, p \in Sockets, ch \in Choice : \A ts \in Probes(rooms[c]) :
          (HasRound(rooms[c]) /\ ResponseOf(RoundOf(rooms[c]), p) # NoChoice)
          => submitAnswer(rooms[c], p, ch, ts) = Rejected(rooms[c]))
  /\ [][ \A s \in Sockets, c \in Codes :
           (AnswerBy(s, c) /\ ResponseOf(RoundOf(rooms[c]), s) # NoChoice)
           => (~last'.ok /\ rooms' = rooms)
       ]_vars

\* an alive player who had answered sent another answer inside the window,
\* and it was rejected
C6_Witness ==
  /\ last.op = "round:answer"
  /\ ~last.ok
  /\ last.code \in DOMAIN rooms
  /\ HasRound(rooms[last.code])
  /\ last.sock \in AliveIds(rooms[last.code])
  /\ ResponseOf(RoundOf(rooms[last.code]), last.sock) \notin {NoChoice, last.choice}
  /\ RoundOf(rooms[last.code]).roundStartTs <= now
  /\ now <= RoundOf(rooms[last.code]).deadlineTs

\* C7: submitAnswer from a player who is not a member of the room, or whose
\* alive flag is false, or on a room without a round, is rejected and changes
\* no room, round or player state; so is the round:answer event of such a
\* sender.
C7_RejectsUnknownDeadNoRound ==
  /\ [](\A c \in DOMAIN rooms, p \in Sockets, ch \in Choice : \A ts \in Probes(rooms[c]) :
          (\/ ~HasRound(rooms[c])
           \/ p \notin PlayerIds(rooms[c])
           \/ ~rooms[c].players[p].alive)
          => submitAnswer(rooms[c], p, ch, ts) = Rejected(rooms[c]))
  /\ [][ (/\ last'.op = "round:answer"
          /\ \/ last'.code \notin DOMAIN rooms
             \/ ~HasRound(rooms[last'.code])
             \/ last'.sock \notin PlayerIds(rooms[last'.code])
             \/ ~rooms[last'.code].players[last'.sock].alive)
         => (~last'.ok /\ rooms' = rooms)
       ]_vars

\* an eliminated player with no response in the round answered inside the
\* window and was rejected
C7_Witness ==
  /\ last.op = "round:answer"
  /\ ~last.ok
  /\ last.code \in DOMAIN rooms
  /\ HasRound(rooms[last.code])
  /\ last.sock \in PlayerIds(rooms[last.code])
  /\ ~rooms[last.code].players[last.sock].alive
  /\ ResponseOf(RoundOf(rooms[last.code]), last.sock) = NoChoice
  /\ RoundOf(rooms[last.code]).roundStartTs <= now
  /\ now <= RoundOf(rooms[last.code]).deadlineTs

\* C8: once a player's failedAtWord is set, no step but a reset to lobby
\* changes that player's failedAtWord or failedChoice, as long as the player
\* entry exists (room:leave and disconnect delete it, room:join creates a new
\* one): no settlement, settlement repeated on the same round, nextRound,
\* answer or timer firing.
C8_FailureSticky ==
  [][ last'.op \notin {"room:reset", "room:join"} =>
        \A c \in DOMAIN rooms \cap DOMAIN rooms' :
          \A p \in PlayerIds(rooms[c]) \cap PlayerIds(rooms'[c]) :
            rooms[c].players[p].failedAtWord # NoWord =>
              /\ rooms'[c].players[p].failedAtWord = rooms[c].players[p].failedAtWord
              /\ rooms'[c].players[p].failedChoice = rooms[c].players[p].failedChoice
    ]_vars

\* two finish timers have settled the same round: the second settlement ran
\* on a finished game whose loser has a failure record
C8_Witness ==
  /\ last.op = "finishTimer"
  /\ last.ok
  /\ Len(games) = 2
  /\ DOMAIN chains = {}
  /\ HasRound(rooms[last.code])
  /\ rooms[last.code].status = "game_over"
  /\ \E p \in PlayerIds(rooms[last.code]) : rooms[last.code].players[p].failedAtWord # NoWord

\* what C9 says of startGame(code, ...) on the registry rs, returning res
C9_Holds(rs, code, res) ==
  LET startable == /\ code \in DOMAIN rs
                   /\ rs[code].status = "lobby"
                   /\ PlayerIds(rs[code]) # {}
                   /\ \A p \in PlayerIds(rs[code]) : rs[code].players[p].ready
  IN /\ res.ret <=> startable
     /\ ~res.ret => res.rooms = rs
     /\ res.ret => /\ res.rooms[code].status = "playing"
                   /\ HasRound(res.rooms[code])

\* C9: startGame succeeds only if the room exists, is in lobby, has a player
\* and every player is ready; otherwise it fails and leaves the registry as it
\* is; on success the room is playing and has a round.  Checked of startGame
\* with every code, and of every game:start event.
C9_StartNeedsAllReady ==
  /\ [](\A code \in Codes, item \in ITEMS :
          C9_Holds(rooms, code, startGame(rooms, code, item, now + PRESTART_MS, DefaultRoundMs)))
  /\ [][ (last'.op = "game:start" /\ last'.code # NoCode) =>
           C9_Holds(rooms, last'.code, [rooms |-> rooms', ret |-> last'.ok])
       ]_vars

\* game:start failed in a lobby where one player was ready and another was not
C9_Witness ==
  /\ last.op = "game:start"
  /\ ~last.ok
  /\ last.code \in DOMAIN rooms
  /\ rooms[last.code].status = "lobby"
  /\ \E p, q \in PlayerIds(rooms[last.code]) :
       rooms[last.code].players[p].ready /\ ~rooms[last.code].players[q].ready

\* C10: a room's status changes only from lobby to playing, from playing to
\* game_over and from any status to lobby; no step takes a room from lobby to
\* game_over or from game_over to playing.
C10_StatusEdges ==
  [][ \A c \in DOMAIN rooms \cap DOMAIN rooms' :
        rooms'[c].status # rooms[c].status =>
          \/ rooms[c].status = "lobby" /\ rooms'[c].status = "playing"
          \/ rooms[c].status = "playing" /\ rooms'[c].status = "game_over"
          \/ rooms'[c].status = "lobby"
    ]_vars

\* the callbacks the server schedules
TimerOps == {"tick", "startTimer", "finishTimer", "interTimer"}

\* C11: a scheduled action that fires when its room is gone, or when the room
\* is back in lobby without the round it was scheduled for, changes no room
\* and schedules no intermission timeout (whose callback calls nextRound).
C11_StaleTimersNoOp ==
  [][ (/\ last'.op \in TimerOps
       /\ \/ last'.code \notin DOMAIN rooms
          \/ /\ rooms[last'.code].status = "lobby"
             /\ ~HasRound(rooms[last'.code]))
      => /\ rooms' = rooms
         /\ \A g \in DOMAIN chains' :
              chains'[g].phase = "inter" => (g \in DOMAIN chains /\ chains[g].phase = "inter")
    ]_vars

\* the finish timer has just settled the round of the room with this code
Settled(c) == last.op = "finishTimer" /\ last.ok /\ last.code = c

\* C12: with fair timers, a playing room's round (whose deadline lies ahead,
\* within the time modelled) is eventually settled unless the room is destroyed; and
\* after a settlement that leaves the room playing, the intermission timer
\* eventually gives it a new round unless the room is destroyed -- whatever
\* the clients do, room:leave or disconnect of the starter included.
C12_RoundsGetSettled ==
  \A c \in OneCode :
    /\ (/\ c \in DOMAIN rooms
        /\ rooms[c].status = "playing"
        /\ HasRound(rooms[c])
        /\ now < RoundOf(rooms[c]).deadlineTs
        /\ RoundOf(rooms[c]).deadlineTs <= MaxTime)
         ~> (c \notin DOMAIN rooms \/ rooms[c].status # "playing" \/ Settled(c))
    /\ (/\ Settled(c)
        /\ c \in DOMAIN rooms
        /\ rooms[c].status = "playing"
        /\ now + rooms[c].settings.intermissionMs <= MaxTime)
         ~> (\/ c \notin DOMAIN rooms
             \/ rooms[c].status # "playing"
             \/ (last.op = "interTimer" /\ last.ok /\ last.code = c))

\* game g's pending timeout has just fired
Fired(g) ==
  /\ g \in DOMAIN chains
  /\ last'.op \in {"startTimer", "finishTimer", "interTimer"}
  /\ last'.sock = games[g]
  /\ (g \notin DOMAIN chains' \/ chains'[g] # chains[g])

\* C13: a timeout of the game begun in one room changes and notifies no other
\* room: when it fires it either acts on the room its round cycle was set up
\* in, that room still being the one the game was started in, or it changes
\* no room and emits nothing.
C13_TimersStayInTheirRoom ==
  [][ \A g \in DOMAIN chains :
        Fired(g) =>
          \/ rooms' = rooms /\ out' = <<>>
          \/ /\ last'.code = chains[g].rCode
             /\ chains[g].rIm = NoTs
             /\ \A c \in DOMAIN rooms \ {chains[g].rCode} :
                  c \in DOMAIN rooms' /\ rooms'[c] = rooms[c]
    ]_vars

\* C14: createRoom gives the new room a code that no live room holds, and
\* leaves every live room in place under its own code (so live rooms keep
\* pairwise distinct codes); the code of a destroyed room is free again.
C14_FreshCode ==
  /\ [](\A code \in FreeCodes(rooms, Codes), s \in Connections :
          LET res == createRoom(rooms, code, s)
          IN /\ res.ret \notin DOMAIN rooms
             /\ DOMAIN res.rooms = DOMAIN rooms \cup {res.ret}
             /\ \A c \in DOMAIN rooms : res.rooms[c] = rooms[c])
  /\ [](Codes \ DOMAIN rooms \subseteq FreeCodes(rooms, Codes))
  /\ [][ last'.op = "room:create" =>
          /\ last'.code \notin DOMAIN rooms
          /\ DOMAIN rooms' = DOMAIN rooms \cup {last'.code}
          /\ \A c \in DOMAIN rooms : rooms'[c] = rooms[c]
          /\ rooms'[last'.code].hostId = last'.sock
      ]_vars

\* a room has just been created under the code of a destroyed room: a
\* connection that disconnected out of a room with this code is not in it
C14_Witness ==
  /\ last.op = "room:create"
  /\ Cardinality(DOMAIN rooms) = 2
  /\ PlayerIds(rooms[last.code]) = {last.sock}
  /\ \E s \in Connections \ {last.sock} : ~connected[s] /\ roomCode[s] = last.code

\* C15: the host of every live room is one of its players; a leave changes
\* no other room's host, and when the host leaves a room that keeps other
\* players, one of those becomes the host.
C15_HostIsMember ==
  /\ [](\A c \in DOMAIN rooms : rooms[c].hostId \in PlayerIds(rooms[c]))
  /\ [](\A c \in DOMAIN rooms : \A id \in PlayerIds(rooms[c]) :
          LET res == leaveRoom(rooms, c, id)
          IN (PlayerIds(rooms[c]) # {id}) =>
               /\ res.ret /\ c \in DOMAIN res.rooms
               /\ res.rooms[c].hostId \in PlayerIds(rooms[c]) \ {id}
               /\ (rooms[c].hostId # id => res.rooms[c].hostId = rooms[c].hostId))
  /\ [][ (last'.op \in {"room:leave", "disconnect"} /\ last'.ok /\ last'.host = last'.sock) =>
          /\ last'.code \in DOMAIN rooms'
          /\ rooms'[last'.code].hostId \in PlayerIds(rooms'[last'.code])
          /\ rooms'[last'.code].hostId # last'.sock
      ]_vars

\* the host has just left a room in which two players remain
C15_Witness ==
  /\ last.op = "room:leave"
  /\ last.ok
  /\ last.host = last.sock
  /\ last.code \in DOMAIN rooms
  /\ Cardinality(PlayerIds(rooms[last.code])) = 2
  /\ rooms[last.code].hostId # last.host

\* C16: no live room is without players; when its last player leaves or
\* disconnects the room is removed in that step, and the code names no room
\* until a room is created under it again.
C16_NoEmptyRoom ==
  /\ [](\A c \in DOMAIN rooms : PlayerIds(rooms[c]) # {})
  /\ [](\A c \in DOMAIN rooms : \A id \in PlayerIds(rooms[c]) :
          LET res == leaveRoom(rooms, c, id)
          IN /\ (PlayerIds(rooms[c]) = {id}) <=> (c \notin DOMAIN res.rooms)
             /\ \A d \in DOMAIN rooms \ {c} : d \in DOMAIN res.rooms /\ res.rooms[d] = rooms[d])
  /\ [][ /\ (/\ last'.op \in {"room:leave", "disconnect"}
             /\ last'.code \in DOMAIN rooms
             /\ PlayerIds(rooms[last'.code]) = {last'.sock})
            => (~last'.ok /\ last'.code \notin DOMAIN rooms')
         /\ \A c \in Codes : (c \notin DOMAIN rooms /\ c \in DOMAIN rooms') =>
               (last'.op = "room:create" /\ last'.code = c)
      ]_vars

\* the last player of a room has just disconnected and the room is gone
C16_Witness ==
  /\ last.op = "disconnect"
  /\ ~last.ok
  /\ last.host = last.sock
  /\ last.code \notin DOMAIN rooms
  /\ DOMAIN rooms # {}

\* integers a client may send as a setting
SettingInputs == {-5, 0, 100, 499, 500, 501, 4321, 5000, 5001, 8000, 8001, 100000}

\* v brought into lo..hi
Within(lo, hi, v) == IF v < lo THEN lo ELSE IF v > hi THEN hi ELSE v

\* C17: every room's settings satisfy 500 <= roundMs <= 8000 and
\* 500 <= intermissionMs <= 5000; setSettings on a lobby room brings an
\* integer input into these ranges (100 to 500, 100000 to 8000 for roundMs)
\* and keeps the value of a field the update does not carry; a room is
\* created with roundMs = 4000 and intermissionMs = 1000.
C17_SettingsInRange ==
  /\ [](\A c \in DOMAIN rooms :
          /\ 500 <= rooms[c].settings.roundMs /\ rooms[c].settings.roundMs <= 8000
          /\ 500 <= rooms[c].settings.intermissionMs /\ rooms[c].settings.intermissionMs <= 5000)
  /\ [](\A c \in DOMAIN rooms : \A v \in SettingInputs, hasR, hasI \in BOOLEAN :
          LET upd == [hasRoundMs |-> hasR, roundMs |-> v,
                      hasIntermissionMs |-> hasI, intermissionMs |-> v]
              res == setSettings(rooms, c, upd)
              cur == rooms[c].settings
              new == res.rooms[c].settings
          IN rooms[c].status = "lobby" =>
               /\ new.roundMs = IF hasR THEN Within(500, 8000, v) ELSE cur.roundMs
               /\ new.intermissionMs = IF hasI THEN Within(500, 5000, v) ELSE cur.intermissionMs)
  /\ [](\A code \in FreeCodes(rooms, OneCode), s \in Sockets :
          createRoom(rooms, code, s).rooms[code].settings
            = [roundMs |-> 4000, intermissionMs |-> 1000])
  /\ [][ /\ last'.op = "room:create" =>
              rooms'[last'.code].settings = [roundMs |-> 4000, intermissionMs |-> 1000]
         /\ \A p \in SettingsPayloads :
              (/\ last'.op = "room:settings" /\ last'.ok
               /\ rooms[last'.code].status = "lobby"
               /\ RoomSettings(last'.sock, p))
              => LET cur == rooms[last'.code].settings
                     new == rooms'[last'.code].settings
                 IN /\ new.roundMs = IF p.hasRoundMs THEN Within(500, 8000, p.roundMs)
                                      ELSE cur.roundMs
                    /\ new.intermissionMs = IF p.hasIntermissionMs
                                            THEN Within(500, 5000, p.intermissionMs)
                                            ELSE cur.intermissionMs
      ]_vars

\* the host has sent 100000 for both settings and then 100 for intermissionMs
C17_Witness ==
  /\ last.op = "room:settings"
  /\ last.ok
  /\ last.code \in DOMAIN rooms
  /\ rooms[last.code].settings = [roundMs |-> 8000, intermissionMs |-> 500]

\* C18: setSettings on a room that is playing or game_over changes nothing,
\* no step changes the settings of such a room, and every round set up for a
\* playing room lasts the roundMs of the room's settings, which are those of
\* the start of the game.
C18_SettingsFrozenInGame ==
  /\ [](\A c \in DOMAIN rooms : \A v \in SettingInputs, hasR, hasI \in BOOLEAN :
          LET upd == [hasRoundMs |-> hasR, roundMs |-> v,
                      hasIntermissionMs |-> hasI, intermissionMs |-> v]
          IN rooms[c].status # "lobby" => setSettings(rooms, c, upd).rooms = rooms)
  /\ [](\A c \in DOMAIN rooms :
          (rooms[c].status # "lobby" /\ HasRound(rooms[c])) =>
             RoundOf(rooms[c]).deadlineTs - RoundOf(rooms[c]).roundStartTs
               = rooms[c].settings.roundMs)
  /\ [][ /\ \A c \in DOMAIN rooms \cap DOMAIN rooms' :
              rooms[c].status # "lobby" => rooms'[c].settings = rooms[c].settings
         /\ (/\ last'.op = "room:settings"
             /\ last'.code \in DOMAIN rooms
             /\ rooms[last'.code].status # "lobby")
            => rooms' = rooms
      ]_vars

\* the host has sent room:settings during the second round of a game, begun
\* after the settings were edited in the lobby
C18_Witness ==
  /\ last.op = "room:settings"
  /\ last.ok
  /\ last.code \in DOMAIN rooms
  /\ rooms[last.code].status = "playing"
  /\ HasRound(rooms[last.code])
  /\ RoundOf(rooms[last.code]).roundStartTs > PRESTART_MS
  /\ rooms[last.code].settings.roundMs = 500

\* a room as resetToLobby has to leave it
IsReset(room) ==
  /\ room.status = "lobby"
  /\ ~HasRound(room)
  /\ room.winnerId = NoId
  /\ \A p \in PlayerIds(room) :
       /\ room.players[p].alive
       /\ ~room.players[p].ready
       /\ room.players[p].response = NoChoice
       /\ room.players[p].respondedAt = NoTs
       /\ room.players[p].failedAtWord = NoWord
       /\ room.players[p].failedChoice = NoChoice

\* the registry after each of these players has set ready = true
RECURSIVE AllReadied(_, _, _)
AllReadied(rs, code, ids) ==
  IF ids = <<>> THEN rs
  ELSE AllReadied(setReady(rs, code, Head(ids), TRUE).rooms, code, Tail(ids))

\* C19: resetToLobby takes a room of any status to lobby without round and
\* winner, every player alive, not ready and without response, respondedAt,
\* failedAtWord and failedChoice, and changes nothing else; once every player
\* has set ready = true again, startGame succeeds.
C19_ResetToLobby ==
  /\ [](\A c \in DOMAIN rooms :
          LET res == resetToLobby(rooms, c)
              rdy == AllReadied(res.rooms, c, rooms[c].order)
          IN /\ res.ret
             /\ DOMAIN res.rooms = DOMAIN rooms
             /\ IsReset(res.rooms[c])
             /\ PlayerIds(res.rooms[c]) = PlayerIds(rooms[c])
             /\ res.rooms[c].hostId = rooms[c].hostId
             /\ res.rooms[c].settings = rooms[c].settings
             /\ \A item \in ITEMS :
                  LET st == startGame(rdy, c, item, now + PRESTART_MS, rdy[c].settings.roundMs)
                  IN st.ret /\ st.rooms[c].status = "playing" /\ HasRound(st.rooms[c]))
  /\ [][ (last'.op = "room:reset" /\ last'.ok) =>
          /\ last'.code \in DOMAIN rooms'
          /\ IsReset(rooms'[last'.code])
          /\ PlayerIds(rooms'[last'.code]) = PlayerIds(rooms[last'.code])
      ]_vars

\* a second game has begun at a table whose first game was over: the table
\* was reset from game_over and its player set ready again
C19_Witness ==
  /\ last.op = "game:start"
  /\ last.ok
  /\ Len(games) = 2
  /\ ticks = {2}
  /\ rooms[last.code].status = "playing"

\* C20: joinRoom with an unknown code, or on a room that is not in lobby,
\* fails and leaves the registry as it is; no step adds a player to a room
\* that is playing or game_over; a successful join puts the joiner in the
\* room with ready = false and alive = true and leaves the others as they are.
C20_JoinOnlyInLobby ==
  /\ [](\A code \in Codes, id \in Connections :
          LET res == joinRoom(rooms, code, id)
          IN IF code \notin DOMAIN rooms \/ rooms[code].status # "lobby"
             THEN ~res.ret /\ res.rooms = rooms
             ELSE /\ res.ret
                  /\ PlayerIds(res.rooms[code]) = PlayerIds(rooms[code]) \cup {id}
                  /\ ~res.rooms[code].players[id].ready
                  /\ res.rooms[code].players[id].alive
                  /\ \A p \in PlayerIds(rooms[code]) \ {id} :
                       res.rooms[code].players[p] = rooms[code].players[p])
  /\ [][ /\ \A c \in DOMAIN rooms \cap DOMAIN rooms' :
              rooms[c].status # "lobby" => PlayerIds(rooms'[c]) \subseteq PlayerIds(rooms[c])
         /\ (last'.op = "room:join" /\ ~last'.ok) =>
              /\ rooms' = rooms /\ roomCode' = roomCode
              /\ (last'.code \notin DOMAIN rooms \/ rooms[last'.code].status # "lobby")
         /\ (last'.op = "room:join" /\ last'.ok) =>
              /\ rooms[last'.code].status = "lobby"
              /\ ~rooms'[last'.code].players[last'.sock].ready
              /\ rooms'[last'.code].players[last'.sock].alive
      ]_vars

\* a connection that is not at the table has just been refused by a room in play
C20_Witness ==
  /\ last.op = "room:join"
  /\ ~last.ok
  /\ last.code \in DOMAIN rooms
  /\ rooms[last.code].status \in {"playing", "game_over"}
  /\ last.sock \notin PlayerIds(rooms[last.code])

\* C21: a room:settings or room:reset sent by a member of a room who is not
\* its host changes no room (settings, status, round, winnerId and the
\* players' flags stay as they were) and notifies nobody.
C21_HostOnly ==
  [][ (/\ last'.op \in {"room:settings", "room:reset"}
       /\ last'.code \in DOMAIN rooms
       /\ last'.sock \in PlayerIds(rooms[last'.code])
       /\ rooms[last'.code].hostId # last'.sock)
      => /\ rooms' = rooms
         /\ ~last'.ok
         /\ out' = <<>>
    ]_vars

\* a player who is not the host has just asked to reset a table whose game
\* is over
C21_Witness ==
  /\ last.op = "room:reset"
  /\ ~last.ok
  /\ last.code \in DOMAIN rooms
  /\ last.sock \in PlayerIds(rooms[last.code])
  /\ rooms[last.code].hostId # last.sock
  /\ rooms[last.code].status = "game_over"

\* alive flag and failure record of a player
Fate(pl) == <<pl.alive, pl.failedAtWord, pl.failedChoice>>

\* C22: a round:answer that is accepted and differs from the correct answer
\* of the round makes the sender not alive in that step, with failedAtWord
\* the prompt of the round and failedChoice the choice sent; one that is
\* accepted and correct leaves the sender's alive flag and failure record as
\* they were, and one that is rejected, for lateness or otherwise, changes no
\* room; nobody else's alive flag or failure record changes either.
C22_ImmediateElimination ==
  [][ (last'.op = "round:answer" /\ last'.code \in DOMAIN rooms) =>
        LET c == last'.code
            s == last'.sock
            old == rooms[c]
            new == rooms'[c]
        IN /\ ~last'.ok => rooms' = rooms
           /\ last'.ok =>
                /\ HasRound(old) /\ s \in PlayerIds(old) /\ old.players[s].alive
                /\ IF last'.choice # Correct(RoundOf(old))
                   THEN Fate(new.players[s])
                          = <<FALSE, RoundOf(old).itemText, last'.choice>>
                   ELSE Fate(new.players[s]) = Fate(old.players[s])
                /\ \A p \in PlayerIds(old) \ {s} : new.players[p] = old.players[p]
    ]_vars

\* a player has just been eliminated by a wrong answer sent in time, the
\* other player still being alive
C22_Witness ==
  /\ last.op = "round:answer"
  /\ last.ok
  /\ last.code \in DOMAIN rooms
  /\ LET room == rooms[last.code]
     IN /\ HasRound(room)
        /\ last.choice # Correct(RoundOf(room))
        /\ last.sock \in PlayerIds(room)
        /\ Fate(room.players[last.sock]) = <<FALSE, RoundOf(room).itemText, last.choice>>
        /\ \E p \in PlayerIds(room) \ {last.sock} : room.players[p].alive

\* C23: round:tick is emitted by the tick callback alone, and only to a room
\* that exists, is playing and has a round when the callback runs; the
\* deadlineTs it carries is that of the room's round; a callback that finds
\* the room gone, in lobby, game_over or without a round emits nothing.
C23_TickOnlyInPlay ==
  [][ /\ "round:tick" \in SeqToSet(out') => (last'.op = "tick" /\ last'.ok)
      /\ last'.op = "tick" =>
           /\ rooms' = rooms
           /\ IF /\ last'.code \in DOMAIN rooms
                 /\ rooms[last'.code].status = "playing"
                 /\ HasRound(rooms[last'.code])
              THEN /\ last'.ok
                   /\ out' = << "round:tick" >>
                   /\ last'.deadlineTs = RoundOf(rooms[last'.code]).deadlineTs
              ELSE ~last'.ok /\ out' = <<>>
    ]_vars

\* the tick of the second game at a table has just been emitted
C23_Witness ==
  /\ last.op = "tick"
  /\ last.ok
  /\ out = << "round:tick" >>
  /\ Len(games) = 2
  /\ last.deadlineTs = RoundOf(rooms[last.code]).deadlineTs

\* the tick intervals, not yet cleared, whose callback reads the room with this code
TicksOn(c) == {g \in ticks : roomCode[games[g]] = c}

\* C24: a room that is game_over has no tick interval left, and no room ever
\* has more than one.
C24_TickCancelled ==
  \A c \in DOMAIN rooms :
    /\ rooms[c].status = "game_over" => TicksOn(c) = {}
    /\ Cardinality(TicksOn(c)) <= 1

\* C25: round:results is emitted only for the round of a playing room (its
\* round:started went out when the round was set up, and a round settled
\* before has been replaced or has ended the game); game:over is emitted only right after the
\* round:results of a settlement that took the room from playing to
\* game_over, hence once per game.
C25_EventOrder ==
  [][ /\ "round:results" \in SeqToSet(out') =>
           /\ last'.op = "finishTimer"
           /\ last'.code \in DOMAIN rooms
           /\ rooms[last'.code].status = "playing"
           /\ HasRound(rooms[last'.code])
      /\ "game:over" \in SeqToSet(out') =>
           /\ out' = << "round:results", "room:state", "game:over" >>
           /\ rooms[last'.code].status = "playing"
           /\ rooms'[last'.code].status = "game_over"
    ]_vars

\* the live rooms that record this connection as a player
RoomsOf(s) == {c \in DOMAIN rooms : s \in PlayerIds(rooms[c])}

\* C26: a connection is a player of at most one live room, and every player
\* recorded in a room is a connection that is still connected and whose
\* current room is that room.
C26_OneRoomPerConnection ==
  /\ \A s \in Connections : Cardinality(RoomsOf(s)) <= 1
  /\ \A c \in DOMAIN rooms : \A p \in PlayerIds(rooms[c]) :
       connected[p] /\ roomCode[p] = c

\* C27: a game_over room has at most one player alive, and its winner, if it
\* has one who is still a player, is that player; in a room that is playing
\* or game_over no step other than room:reset makes a player alive again.
C27_WinnerIsSurvivor ==
  /\ [](\A c \in DOMAIN rooms :
          rooms[c].status = "game_over" =>
            /\ Cardinality(AliveIds(rooms[c])) <= 1
            /\ (rooms[c].winnerId \in PlayerIds(rooms[c])) =>
                 AliveIds(rooms[c]) = {rooms[c].winnerId})
  /\ [][ \A c \in DOMAIN rooms \cap DOMAIN rooms' :
          \A p \in PlayerIds(rooms[c]) \cap PlayerIds(rooms'[c]) :
            (/\ rooms[c].status # "lobby"
             /\ ~rooms[c].players[p].alive
             /\ rooms'[c].players[p].alive) => last'.op = "room:reset"
      ]_vars

====
